---- MODULE Spec2Model ----
(***************************************************************************)
(* The 8 AM short-strangle engine of src/main.py: the polling loop         *)
(* run_market_monitor, the entry gate execute_entry, the exit monitor      *)
(* check_exit_conditions and the JSON trade log, as one state machine.     *)
(*                                                                         *)
(* Conventions.  Prices, premiums and strikes are positive integers (USD). *)
(* Python's None and the falsy 0.0 are both written None.  Ratios of the   *)
(* source are cross-multiplied: 0.8 and 0.2 and PREMIUM_BALANCE_RATIO are  *)
(* tenths, the OTM offsets are thousandths, RISK_PER_DAY_USD is in cents.  *)
(* The wall clock is cut into the minutes the code tests for and the       *)
(* periods between them (SlotOrder); a time is the index of a slot counted *)
(* from the first day.                                                     *)
(*                                                                         *)
(* A step is one pass of the loop body at the current time (PricedTick,    *)
(* UnpricedTick) or the sleep that carries the clock into the next slot    *)
(* (Sleep); a slot the loop sleeps across has no tick.  sent is what the   *)
(* last step sent to Telegram, ev what the last step read and did,         *)
(* attempts counts the calls of execute_entry per day and entry_days holds *)
(* the days with a priced tick in the 08:00 minute.  Spec follows the      *)
(* first day with every answer of the feeds (Rich), SpecDays follows       *)
(* several days with fewer answers (Lean) and the messages of the user,   *)
(* SpecGate the first entry minute with spots and premiums around the      *)
(* thresholds of the gate (Wide), SpecSizer calculate_position_size alone. *)
(* SpecLive is a morning of the loop under weak fairness of its body,      *)
(* SpecSigned the first entry minute with premiums of either sign, SpecLog *)
(* the trade log alone, SpecStrikes find_best_strikes alone, and SpecAwait *)
(* the pass cut at its awaits, with status queries answered in between.    *)
(***************************************************************************)
EXTENDS Integers, Sequences, FiniteSets, TLC

\* ---------------------------------------------------------------- bounds
MaxClock == 9
MaxPrice == 2
GateMaxClock == 3
LiveMaxClock == 5
MaxPremium == 32
MaxLeanClock == 12

MaxAppends == 32

MaxAmended == 1

MaxChain == 3

AwaitMaxClock == 11

\* ------------------------------------------------------ program constants
SL_MULTIPLIER == 5
MIN_COMBINED_PREMIUM == 20
PREMIUM_BALANCE_RATIO == 3
MAX_HV == 70
LOW_IV_HV == 30
OTM_PERCENTAGE == 20
OTM_LOW_IV == 15
RISK_PER_DAY_USD == 1176
LOG_RETENTION == 30
None == 0

Abs(x) == IF x < 0 THEN -x ELSE x

Max(a, b) == IF a >= b THEN a ELSE b

\* ------------------------------------------------------------------ clock
SlotOrder ==
    <<"00:00", "night", "08:00", "morning", "12:30", "afternoon", "17:15", "evening">>

Times == 1 .. MaxClock

LeanTimes == 1 .. MaxLeanClock

Day(t) == ((t - 1) \div Len(SlotOrder)) + 1

Slot(t) == SlotOrder[((t - 1) % Len(SlotOrder)) + 1]

Days == 1 .. Day(Max(MaxClock, MaxLeanClock))

\* ----------------------------------------------------------- environment
Prices == 1 .. MaxPrice

\* get_historical_volatility: a value under LOW_IV_HV, a value over MAX_HV
HVValues == {20, 80}

\* get_option_premium at entry: 0.0 is "no premium"
EntryPremiums == {0, 4, 16}

\* get_option_premium while a position is monitored
ExitPremiums == {0, 20, 80}

FullChain ==
    << [id |-> 11, type |-> "call", strike |-> 3],
       [id |-> 21, type |-> "put",  strike |-> 1] >>

\* get_options_chain: every contiguous part of FullChain, the empty chain included
Chains ==
    { SubSeq(FullChain, i, j) : i \in 1 .. Len(FullChain), j \in 0 .. Len(FullChain) }

\* What the feeds and the clock can answer.  hv is the pair of values the two
\* HV computations of one entry attempt return; drift is by how many slots the
\* clock read of check_exit_conditions can be ahead of the loop's.
Rich ==
    [ times |-> Times, prices |-> Prices, hv |-> HVValues \X HVValues,
      chains |-> Chains, entry_premiums |-> EntryPremiums,
      exit_premiums |-> ExitPremiums, drift |-> {0, 1} ]

\* The same feeds with fewer answers, for runs over several days: one price, the
\* two HV computations agreeing, a chain that is empty or full, no clock drift.
Lean ==
    [ times |-> LeanTimes, prices |-> {1}, hv |-> { <<h, h>> : h \in HVValues },
      chains |-> {<<>>, FullChain}, entry_premiums |-> EntryPremiums,
      exit_premiums |-> {0, 80}, drift |-> {0} ]

\* ------------------------------------------------------------------ state
VARIABLES
    base_price, day_high, day_low, prev_day_high, prev_day_low,
    entry_time, call_entry_price, put_entry_price, call_strike, put_strike,
    call_sl, put_sl, call_quantity, put_quantity, call_product_id, put_product_id,
    position_active, trade_mode, trade_executed_today, no_trade_reason,
    logs,        \* the records of trade_logs.json
    clock,       \* the wall clock: the slot the time is in
    sent,        \* the notifications sent during the last tick, in order
    ev,          \* what the last tick read and did
    attempts,    \* per day, the number of calls of execute_entry that returned
    entry_days,  \* the days that had a priced tick in the 08:00 minute
    monitor      \* the task run_market_monitor: "running" or "stopped"

vars ==
    << base_price, day_high, day_low, prev_day_high, prev_day_low,
       entry_time, call_entry_price, put_entry_price, call_strike, put_strike,
       call_sl, put_sl, call_quantity, put_quantity, call_product_id, put_product_id,
       position_active, trade_mode, trade_executed_today, no_trade_reason,
       logs, clock, sent, ev, attempts, entry_days, monitor >>

\* ---------------------------------------------------------------- the log
\* a log that keeps the oldest LOG_RETENTION records instead of the newest
log_keeps_oldest(file, data) ==
    LET appended == Append(file, data)
    IN  IF Len(appended) > LOG_RETENTION
        THEN SubSeq(appended, 1, LOG_RETENTION)
        ELSE appended

\* log_trade_decision: append, keep the last LOG_RETENTION records
log_trade_decision(file, data) ==
    LET appended == Append(file, data)
    IN  IF Len(appended) > LOG_RETENTION
        THEN SubSeq(appended, Len(appended) - LOG_RETENTION + 1, Len(appended))
        ELSE appended

\* an amendment that writes the exit fields into the oldest record
update_oldest_record(file, exit_reason, exit_price, at) ==
    IF file # <<>>
    THEN [file EXCEPT ![1] =
             [@ EXCEPT !.exit_reason = exit_reason,
                       !.exit_price = exit_price,
                       !.exit_time = at]]
    ELSE file

\* update_trade_log: the exit fields of the last record, when there is one
update_trade_log(file, exit_reason, exit_price, at) ==
    IF file # <<>>
    THEN [file EXCEPT ![Len(file)] =
             [@ EXCEPT !.exit_reason = exit_reason,
                       !.exit_price = exit_price,
                       !.exit_time = at]]
    ELSE file

\* a trend check that lets a spot exactly on a threshold pass
check_market_strict(spot_price, d_high, d_low, hv, at) ==
    LET price_range == d_high - d_low
        trend ==
            IF d_high = None \/ d_low = None THEN "insufficient_data"
            ELSE IF price_range > 0
                 THEN IF 10 * spot_price > 10 * d_low + 8 * price_range
                      THEN "near_high"
                      ELSE IF 10 * spot_price < 10 * d_low + 2 * price_range
                           THEN "near_low"
                           ELSE "range_bound"
                 ELSE "absent"
        trend_ok == trend \notin {"near_high", "near_low"}
        reject_reason ==
            IF trend = "near_high" THEN "Strong uptrend detected"
            ELSE IF trend = "near_low" THEN "Strong downtrend detected"
            ELSE IF hv > MAX_HV THEN "High HV"
            ELSE "none"
    IN  [ is_valid |-> trend_ok /\ ~(hv > MAX_HV),
          reject_reason |-> reject_reason,
          results |->
              [ timestamp |-> at,
                trend |-> trend,
                volatility |-> IF hv > MAX_HV THEN "fail" ELSE "pass",
                premium_balance |-> "absent",
                min_premium |-> "absent",
                hv |-> hv,
                status |-> "none",
                exit_reason |-> "none",
                exit_price |-> None,
                exit_time |-> None ] ]

\* ------------------------------------------------------------ entry gate
\* check_market_conditions; hv is what its get_historical_volatility() returned
check_market_conditions(spot_price, d_high, d_low, hv, at) ==
    LET price_range == d_high - d_low
        trend ==
            IF d_high = None \/ d_low = None THEN "insufficient_data"
            ELSE IF price_range > 0
                 THEN IF 10 * spot_price >= 10 * d_low + 8 * price_range
                      THEN "near_high"
                      ELSE IF 10 * spot_price <= 10 * d_low + 2 * price_range
                           THEN "near_low"
                           ELSE "range_bound"
                 ELSE "absent"
        trend_ok == trend \notin {"near_high", "near_low"}
        reject_reason ==
            IF trend = "near_high" THEN "Strong uptrend detected"
            ELSE IF trend = "near_low" THEN "Strong downtrend detected"
            ELSE IF hv > MAX_HV THEN "High HV"
            ELSE "none"
    IN  [ is_valid |-> trend_ok /\ ~(hv > MAX_HV),
          reject_reason |-> reject_reason,
          results |->
              [ timestamp |-> at,
                trend |-> trend,
                volatility |-> IF hv > MAX_HV THEN "fail" ELSE "pass",
                premium_balance |-> "absent",
                min_premium |-> "absent",
                hv |-> hv,
                status |-> "none",
                exit_reason |-> "none",
                exit_price |-> None,
                exit_time |-> None ] ]

\* a minimum that keeps the last of the contracts at the least distance
BestIndexLatest(chain, type, target) ==
    LET idx == { i \in 1 .. Len(chain) : chain[i].type = type }
        dist(i) == Abs(1000 * chain[i].strike - target)
        best == { i \in idx : \A k \in idx : dist(i) <= dist(k) }
    IN  IF idx = {} THEN 0 ELSE CHOOSE i \in best : \A k \in best : i >= k

\* the index in chain of min(..., key = distance to target): the first of the
\* contracts of the type at the least distance; 0 when the chain has none
BestIndex(chain, type, target) ==
    LET idx == { i \in 1 .. Len(chain) : chain[i].type = type }
        dist(i) == Abs(1000 * chain[i].strike - target)
        best == { i \in idx : \A k \in idx : dist(i) <= dist(k) }
    IN  IF idx = {} THEN 0 ELSE CHOOSE i \in best : \A k \in best : i <= k

NoSelection == [found |-> FALSE]

\* find_best_strikes; otm_pct in thousandths
find_best_strikes(spot_price, otm_pct, chain) ==
    LET c == BestIndex(chain, "call", spot_price * (1000 + otm_pct))
        p == BestIndex(chain, "put", spot_price * (1000 - otm_pct))
    IN  IF chain = <<>> \/ c = 0 \/ p = 0
        THEN NoSelection
        ELSE [ found |-> TRUE,
               best_call |-> [product_id |-> chain[c].id, strike |-> chain[c].strike],
               best_put  |-> [product_id |-> chain[p].id, strike |-> chain[p].strike] ]

\* a sizing without the floor of one contract
position_size_unfloored(premium) ==
    IF premium <= 0 THEN 0
    ELSE RISK_PER_DAY_USD \div (10 * premium * (SL_MULTIPLIER - 1))

\* calculate_position_size: the first return statement is the one that runs
calculate_position_size(premium) ==
    IF premium <= 0 THEN 0
    ELSE LET loss_per_contract == premium * (SL_MULTIPLIER - 1)
         IN  IF loss_per_contract <= 0 THEN 1
             ELSE Max(1, RISK_PER_DAY_USD \div (10 * loss_per_contract))

\* the globals of main.py and the log file as one record, with what the tick
\* has sent (sent) and the exit it has taken (closed, closed_price) so far
G ==
    [ base_price |-> base_price, day_high |-> day_high, day_low |-> day_low,
      prev_day_high |-> prev_day_high, prev_day_low |-> prev_day_low,
      entry_time |-> entry_time,
      call_entry_price |-> call_entry_price, put_entry_price |-> put_entry_price,
      call_strike |-> call_strike, put_strike |-> put_strike,
      call_sl |-> call_sl, put_sl |-> put_sl,
      call_quantity |-> call_quantity, put_quantity |-> put_quantity,
      call_product_id |-> call_product_id, put_product_id |-> put_product_id,
      position_active |-> position_active, trade_mode |-> trade_mode,
      trade_executed_today |-> trade_executed_today,
      no_trade_reason |-> no_trade_reason,
      logs |-> logs, sent |-> <<>>, closed |-> "none", closed_price |-> None ]

\* a rejection that tells the user and leaves trade_mode as it was
DowngradeKeepsMode(s, msg) ==
    [s EXCEPT !.sent = Append(@, msg)]

\* "if trade_mode == 'REAL': log_data['status'] = 'SKIPPED'; trade_mode = 'VIRTUAL'"
\* followed by the NO TRADE TODAY message of the failed check
Downgrade(s, msg) ==
    [s EXCEPT !.trade_mode = "VIRTUAL", !.sent = Append(@, msg)]

\* the status of the record of an attempt that opens a position
EntryStatus(mode) ==
    IF mode = "REAL" THEN "EXECUTED" ELSE "VIRTUAL_TRACKING"

\* an early return that writes no record
HardAbortUnlogged(s, log_data, reason, status, msg) ==
    [s EXCEPT !.no_trade_reason = reason,
              !.sent = Append(@, msg)]

\* an attempt that ends at one of the two early returns of execute_entry
HardAbort(s, log_data, reason, status, msg) ==
    [s EXCEPT !.no_trade_reason = reason,
              !.logs = log_trade_decision(@, [log_data EXCEPT !.status = status]),
              !.sent = Append(@, msg)]

\* an opening whose balance check fails a ratio of exactly PREMIUM_BALANCE_RATIO
OpenPositionStrictBalance(s, log_data, sel, call_premium, put_premium, at) ==
    LET call_qty == calculate_position_size(call_premium)
        put_qty == calculate_position_size(put_premium)
        s1 == [s EXCEPT !.call_strike = sel.best_call.strike,
                        !.put_strike = sel.best_put.strike,
                        !.call_entry_price = call_premium,
                        !.put_entry_price = put_premium,
                        !.call_sl = call_premium * SL_MULTIPLIER,
                        !.put_sl = put_premium * SL_MULTIPLIER,
                        !.call_product_id = sel.best_call.product_id,
                        !.put_product_id = sel.best_put.product_id]
        top == Max(call_premium, put_premium)
        balanced ==
            IF top > 0
            THEN 10 * Abs(call_premium - put_premium) < PREMIUM_BALANCE_RATIO * top
            ELSE FALSE
        s2 == IF balanced THEN s1
              ELSE [Downgrade(s1, "NO_TRADE_IMBALANCE")
                        EXCEPT !.no_trade_reason = "Premium imbalance"]
        combined_premium == call_premium + put_premium
        enough == combined_premium >= MIN_COMBINED_PREMIUM
        s3 == IF enough THEN s2
              ELSE [Downgrade(s2, "NO_TRADE_LOW_PREMIUM")
                        EXCEPT !.no_trade_reason = "Combined premium low"]
        record == [log_data EXCEPT
                      !.premium_balance = IF balanced THEN "pass" ELSE "fail",
                      !.min_premium = IF enough THEN "pass" ELSE "fail",
                      !.status = EntryStatus(s3.trade_mode)]
    IN  [s3 EXCEPT !.logs = log_trade_decision(@, record),
                   !.call_quantity = call_qty,
                   !.put_quantity = put_qty,
                   !.position_active = TRUE,
                   !.entry_time = at,
                   !.sent = IF s3.trade_mode = "REAL"
                            THEN Append(@, "SHORT_STRANGLE_EXECUTED") ELSE @]

\* an opening that skips the balance check once the mode is VIRTUAL
OpenPositionModeAware(s, log_data, sel, call_premium, put_premium, at) ==
    LET call_qty == calculate_position_size(call_premium)
        put_qty == calculate_position_size(put_premium)
        s1 == [s EXCEPT !.call_strike = sel.best_call.strike,
                        !.put_strike = sel.best_put.strike,
                        !.call_entry_price = call_premium,
                        !.put_entry_price = put_premium,
                        !.call_sl = call_premium * SL_MULTIPLIER,
                        !.put_sl = put_premium * SL_MULTIPLIER,
                        !.call_product_id = sel.best_call.product_id,
                        !.put_product_id = sel.best_put.product_id]
        top == Max(call_premium, put_premium)
        balanced ==
            IF s.trade_mode = "VIRTUAL" THEN TRUE
            ELSE IF top > 0
            THEN 10 * Abs(call_premium - put_premium) <= PREMIUM_BALANCE_RATIO * top
            ELSE FALSE
        s2 == IF balanced THEN s1
              ELSE [Downgrade(s1, "NO_TRADE_IMBALANCE")
                        EXCEPT !.no_trade_reason = "Premium imbalance"]
        combined_premium == call_premium + put_premium
        enough == combined_premium >= MIN_COMBINED_PREMIUM
        s3 == IF enough THEN s2
              ELSE [Downgrade(s2, "NO_TRADE_LOW_PREMIUM")
                        EXCEPT !.no_trade_reason = "Combined premium low"]
        record == [log_data EXCEPT
                      !.premium_balance = IF balanced THEN "pass" ELSE "fail",
                      !.min_premium = IF enough THEN "pass" ELSE "fail",
                      !.status = EntryStatus(s3.trade_mode)]
    IN  [s3 EXCEPT !.logs = log_trade_decision(@, record),
                   !.call_quantity = call_qty,
                   !.put_quantity = put_qty,
                   !.position_active = TRUE,
                   !.entry_time = at,
                   !.sent = IF s3.trade_mode = "REAL"
                            THEN Append(@, "SHORT_STRANGLE_EXECUTED") ELSE @]

\* execute_entry from "# 4. Premium Balance Check" on: both strikes and both
\* premiums are there
OpenPosition(s, log_data, sel, call_premium, put_premium, at) ==
    LET call_qty == calculate_position_size(call_premium)
        put_qty == calculate_position_size(put_premium)
        s1 == [s EXCEPT !.call_strike = sel.best_call.strike,
                        !.put_strike = sel.best_put.strike,
                        !.call_entry_price = call_premium,
                        !.put_entry_price = put_premium,
                        !.call_sl = call_premium * SL_MULTIPLIER,
                        !.put_sl = put_premium * SL_MULTIPLIER,
                        !.call_product_id = sel.best_call.product_id,
                        !.put_product_id = sel.best_put.product_id]
        top == Max(call_premium, put_premium)
        balanced ==
            IF top > 0
            THEN 10 * Abs(call_premium - put_premium) <= PREMIUM_BALANCE_RATIO * top
            ELSE FALSE
        s2 == IF balanced THEN s1
              ELSE [Downgrade(s1, "NO_TRADE_IMBALANCE")
                        EXCEPT !.no_trade_reason = "Premium imbalance"]
        combined_premium == call_premium + put_premium
        enough == combined_premium >= MIN_COMBINED_PREMIUM
        s3 == IF enough THEN s2
              ELSE [Downgrade(s2, "NO_TRADE_LOW_PREMIUM")
                        EXCEPT !.no_trade_reason = "Combined premium low"]
        record == [log_data EXCEPT
                      !.premium_balance = IF balanced THEN "pass" ELSE "fail",
                      !.min_premium = IF enough THEN "pass" ELSE "fail",
                      !.status = EntryStatus(s3.trade_mode)]
    IN  [s3 EXCEPT !.logs = log_trade_decision(@, record),
                   !.call_quantity = call_qty,
                   !.put_quantity = put_qty,
                   !.position_active = TRUE,
                   !.entry_time = at,
                   !.sent = IF s3.trade_mode = "REAL"
                            THEN Append(@, "SHORT_STRANGLE_EXECUTED") ELSE @]

\* execute_entry.  in.hv1 is the HV check_market_conditions computed, in.hv2 the
\* one computed from the candles fetched for the report, in.chain the option
\* chain, in.call_premium and in.put_premium the premiums of the selected legs.
execute_entry(s, spot_price, at, in) ==
    LET cm == check_market_conditions(spot_price, s.day_high, s.day_low, in.hv1, at)
        hv == in.hv2
        otm_pct == IF hv < LOW_IV_HV THEN OTM_LOW_IV ELSE OTM_PERCENTAGE
        sel == find_best_strikes(spot_price, otm_pct, in.chain)
        call_premium == IF sel.found THEN in.call_premium ELSE 0
        put_premium == IF sel.found THEN in.put_premium ELSE 0
        log_data == [cm.results EXCEPT !.hv = hv]
        s1 == IF cm.is_valid THEN s ELSE Downgrade(s, "NO_TRADE_UNSUITABLE")
    IN  IF in.chain = <<>> \/ ~sel.found
        THEN HardAbort(s1, log_data, "Options data missing",
                       "SKIPPED_NO_DATA", "NO_TRADE_NO_DATA")
        ELSE IF call_premium = 0 \/ put_premium = 0
             THEN HardAbort(s1, log_data, "Premiums not available",
                            "SKIPPED_NO_PREMIUM", "NO_TRADE_NO_PREMIUM")
             ELSE OpenPosition(s1, log_data, sel, call_premium, put_premium, at)

\* an exit branch that sends the message whatever trade_mode is
CloseAlwaysNotifies(s, exit_reason, exit_price, at) ==
    [s EXCEPT !.position_active = FALSE,
              !.logs = update_trade_log(@, exit_reason, exit_price, at),
              !.sent = Append(@, exit_reason),
              !.closed = exit_reason,
              !.closed_price = exit_price]

\* ---------------------------------------------------------- exit monitor
\* one exit branch of check_exit_conditions: position_active = False,
\* update_trade_log, and the message when trade_mode is REAL
Close(s, exit_reason, exit_price, at) ==
    [s EXCEPT !.position_active = FALSE,
              !.logs = update_trade_log(@, exit_reason, exit_price, at),
              !.sent = IF s.trade_mode = "REAL" THEN Append(@, exit_reason) ELSE @,
              !.closed = exit_reason,
              !.closed_price = exit_price]

\* an exit monitor that looks at the clock before it looks at the stops
check_exit_time_first(s, spot_price, at, curr_call_prem, curr_put_prem) ==
    IF ~s.position_active THEN s
    ELSE IF Slot(at) = "12:30"
    THEN Close(s, "TIME_EXIT_1230", spot_price, at)
    ELSE IF Slot(at) = "17:15"
    THEN Close(s, "TIME_EXIT_1715", spot_price, at)
    ELSE IF s.call_product_id # None /\ curr_call_prem # 0
            /\ curr_call_prem >= s.call_sl
    THEN Close(s, "SL_HIT_CALL", curr_call_prem, at)
    ELSE IF s.put_product_id # None /\ curr_put_prem # 0
            /\ curr_put_prem >= s.put_sl
    THEN Close(s, "SL_HIT_PUT", curr_put_prem, at)
    ELSE s

\* an exit monitor whose time exits give way to the day's range: at 12:30 and
\* 17:15 it closes only a position whose spot is inside the range
check_exit_range_first(s, spot_price, at, curr_call_prem, curr_put_prem) ==
    IF ~s.position_active THEN s
    ELSE IF s.call_product_id # None /\ curr_call_prem # 0
            /\ curr_call_prem >= s.call_sl
    THEN Close(s, "SL_HIT_CALL", curr_call_prem, at)
    ELSE IF s.put_product_id # None /\ curr_put_prem # 0
            /\ curr_put_prem >= s.put_sl
    THEN Close(s, "SL_HIT_PUT", curr_put_prem, at)
    ELSE IF s.day_high # None /\ spot_price >= s.day_high
    THEN Close(s, "DAY_HIGH_BREAKOUT", spot_price, at)
    ELSE IF Slot(at) = "12:30"
    THEN Close(s, "TIME_EXIT_1230", spot_price, at)
    ELSE IF Slot(at) = "17:15"
    THEN Close(s, "TIME_EXIT_1715", spot_price, at)
    ELSE s

\* check_exit_conditions.  at is the clock it reads, curr_call_prem and
\* curr_put_prem what get_option_premium answers for the two legs.
check_exit_conditions(s, spot_price, at, curr_call_prem, curr_put_prem) ==
    IF ~s.position_active THEN s
    ELSE IF s.call_product_id # None /\ curr_call_prem # 0
            /\ curr_call_prem >= s.call_sl
    THEN Close(s, "SL_HIT_CALL", curr_call_prem, at)
    ELSE IF s.put_product_id # None /\ curr_put_prem # 0
            /\ curr_put_prem >= s.put_sl
    THEN Close(s, "SL_HIT_PUT", curr_put_prem, at)
    ELSE IF Slot(at) = "12:30"
    THEN Close(s, "TIME_EXIT_1230", spot_price, at)
    ELSE IF Slot(at) = "17:15"
    THEN Close(s, "TIME_EXIT_1715", spot_price, at)
    ELSE IF s.day_high # None /\ spot_price > s.day_high
    THEN Close(s, "DAY_HIGH_BREAKOUT", spot_price, at)
    ELSE IF s.day_low # None /\ spot_price < s.day_low
    THEN Close(s, "DAY_LOW_BREAKDOWN", spot_price, at)
    ELSE s

\* ------------------------------------------------------- the polling loop
\* an update that sets the high and the low of the day once and then keeps them
update_high_low_once(s, current_price) ==
    [s EXCEPT !.day_high = IF @ = None THEN current_price ELSE @,
              !.day_low = IF @ = None THEN current_price ELSE @]

\* "if day_high is None or current_price > day_high: ..." and the same for the low
update_high_low(s, current_price) ==
    [s EXCEPT !.day_high = IF @ = None \/ current_price > @ THEN current_price ELSE @,
              !.day_low = IF @ = None \/ current_price < @ THEN current_price ELSE @]

\* a trigger that does not look at position_active
EntryTriggerAnyPosition(s, now) ==
    /\ Slot(now) = "08:00"
    /\ ~s.trade_executed_today

\* the condition under which the loop calls execute_entry
EntryTrigger(s, now) ==
    /\ Slot(now) = "08:00"
    /\ ~s.trade_executed_today
    /\ ~s.position_active

\* "base_price = current_price; await execute_entry(...); trade_executed_today = True"
entry_step(s, current_price, now, in) ==
    [execute_entry([s EXCEPT !.base_price = current_price], current_price, now, in)
        EXCEPT !.trade_executed_today = TRUE]

\* "if now_ist.hour == 0 and now_ist.minute == 0: ..."
midnight_reset(s, now) ==
    IF Slot(now) = "00:00"
    THEN [s EXCEPT !.trade_executed_today = FALSE,
                   !.no_trade_reason = "none",
                   !.prev_day_high = s.day_high,
                   !.prev_day_low = s.day_low,
                   !.day_high = None,
                   !.day_low = None]
    ELSE s

\* what the feeds can answer to one call of execute_entry
EntryInputs(E) ==
    { [hv1 |-> h[1], hv2 |-> h[2], chain |-> ch, call_premium |-> cp,
       put_premium |-> pp] :
        h \in E.hv, ch \in E.chains,
        cp \in E.entry_premiums, pp \in E.entry_premiums }

NoEntryInput ==
    [hv1 |-> None, hv2 |-> None, chain |-> <<>>, call_premium |-> None,
     put_premium |-> None]

\* what one call of check_exit_conditions can read: its own clock and the two
\* current premiums
ExitInputs(E, now) ==
    { [at |-> a, call |-> c, put |-> p] :
        a \in { now + d : d \in E.drift } \cap E.times,
        c \in E.exit_premiums, p \in E.exit_premiums }

NoExitInput(now) == [at |-> now, call |-> None, put |-> None]

HasType(chain, type) == \E i \in 1 .. Len(chain) : chain[i].type = type

\* the state the tick leaves behind
Commit(s) ==
    /\ base_price' = s.base_price
    /\ day_high' = s.day_high
    /\ day_low' = s.day_low
    /\ prev_day_high' = s.prev_day_high
    /\ prev_day_low' = s.prev_day_low
    /\ entry_time' = s.entry_time
    /\ call_entry_price' = s.call_entry_price
    /\ put_entry_price' = s.put_entry_price
    /\ call_strike' = s.call_strike
    /\ put_strike' = s.put_strike
    /\ call_sl' = s.call_sl
    /\ put_sl' = s.put_sl
    /\ call_quantity' = s.call_quantity
    /\ put_quantity' = s.put_quantity
    /\ call_product_id' = s.call_product_id
    /\ put_product_id' = s.put_product_id
    /\ position_active' = s.position_active
    /\ trade_mode' = s.trade_mode
    /\ trade_executed_today' = s.trade_executed_today
    /\ no_trade_reason' = s.no_trade_reason
    /\ logs' = s.logs
    /\ sent' = s.sent

NoEvent ==
    [ tick |-> "none", spot |-> None,
      attempted |-> FALSE, has_call |-> FALSE, has_put |-> FALSE,
      entry_call_premium |-> None, entry_put_premium |-> None, opened |-> FALSE,
      monitored |-> FALSE, curr_call |-> None, curr_put |-> None,
      closed |-> "none", closed_price |-> None ]

\* What the tick read and did.  The premiums of the legs are read at entry only
\* for a chain with a contract of each type; the current premium of the put is
\* read by check_exit_conditions only when the call has not hit its stop.
Event(current_price, fire, in, s2, x, s4) ==
    LET got == fire /\ HasType(in.chain, "call") /\ HasType(in.chain, "put")
        watch == s2.position_active
    IN  [ tick |-> "priced",
          spot |-> IF watch THEN current_price ELSE None,
          attempted |-> fire,
          has_call |-> fire /\ HasType(in.chain, "call"),
          has_put |-> fire /\ HasType(in.chain, "put"),
          entry_call_premium |-> IF got THEN in.call_premium ELSE None,
          entry_put_premium |-> IF got THEN in.put_premium ELSE None,
          opened |-> fire /\ s2.position_active,
          monitored |-> watch,
          curr_call |-> x.call,
          curr_put |-> IF s4.closed = "SL_HIT_CALL" THEN None ELSE x.put,
          closed |-> s4.closed,
          closed_price |-> s4.closed_price ]

\* one pass of the loop body in which get_btc_price returns a price
PricedTick(E) ==
    /\ monitor = "running"
    /\ UNCHANGED monitor
    /\ \E current_price \in E.prices :
        LET now == clock
            s1 == update_high_low(G, current_price)
            fire == EntryTrigger(s1, now)
        IN  \E in \in (IF fire THEN EntryInputs(E) ELSE {NoEntryInput}) :
              LET s2 == IF fire THEN entry_step(s1, current_price, now, in) ELSE s1
                  watch == s2.position_active
              IN  \E x \in (IF watch THEN ExitInputs(E, now) ELSE {NoExitInput(now)}) :
                    LET s3 == IF watch
                              THEN check_exit_conditions(s2, current_price, x.at,
                                                         x.call, x.put)
                              ELSE s2
                        s4 == midnight_reset(s3, now)
                    IN  /\ Commit(s4)
                        /\ clock' = x.at
                        /\ attempts' = IF fire
                                       THEN [attempts EXCEPT ![Day(now)] = @ + 1]
                                       ELSE attempts
                        /\ entry_days' = IF Slot(now) = "08:00"
                                         THEN entry_days \cup {Day(now)}
                                         ELSE entry_days
                        /\ ev' = Event(current_price, fire, in, s2, x, s4)

\* a pass without a price that still runs the midnight block
UnpricedTickResets ==
    /\ Commit(midnight_reset(G, clock))
    /\ ev' = [NoEvent EXCEPT !.tick = "unpriced"]
    /\ UNCHANGED << attempts, entry_days, clock, monitor >>

\* one pass of the loop body in which get_btc_price returns None
UnpricedTick ==
    /\ monitor = "running"
    /\ sent' = <<>>
    /\ ev' = [NoEvent EXCEPT !.tick = "unpriced"]
    /\ UNCHANGED << base_price, day_high, day_low, prev_day_high, prev_day_low,
                    entry_time, call_entry_price, put_entry_price, call_strike,
                    put_strike, call_sl, put_sl, call_quantity, put_quantity,
                    call_product_id, put_product_id, position_active, trade_mode,
                    trade_executed_today, no_trade_reason, logs, attempts,
                    entry_days, clock, monitor >>

\* a pass in which the error of execute_entry leaves the loop: the task ends
RaisedTickEndsLoop(E) ==
    /\ monitor = "running"
    /\ clock + 1 \in E.times
    /\ \E current_price \in E.prices :
          LET s1 == update_high_low(G, current_price)
          IN  /\ EntryTrigger(s1, clock)
              /\ Commit([s1 EXCEPT !.base_price = current_price])
    /\ monitor' = "stopped"
    /\ ev' = [NoEvent EXCEPT !.tick = "raised"]
    /\ UNCHANGED << attempts, entry_days, clock >>

\* One pass of the loop body in which execute_entry raises while it builds its
\* report, before it has decided anything: the high, the low and base_price are
\* already written, "except Exception" logs the error and sleeps 60 seconds,
\* which carries the clock out of the 08:00 minute.
RaisedTick(E) ==
    /\ monitor = "running"
    /\ clock + 1 \in E.times
    /\ \E current_price \in E.prices :
          LET s1 == update_high_low(G, current_price)
          IN  /\ EntryTrigger(s1, clock)
              /\ Commit([s1 EXCEPT !.base_price = current_price])
    /\ clock' = clock + 1
    /\ ev' = [NoEvent EXCEPT !.tick = "raised"]
    /\ UNCHANGED << attempts, entry_days, monitor >>

\* ------------------------------------------------------ the command surface
\* the texts a user can send: the two commands, with and without the slash, and
\* anything else
CommandTexts == {"/status", "status", "/help", "help", "hello"}

\* handle_commands: the reply to text in the state s, <<>> when the text is no
\* command
handle_commands(s, text) ==
    IF text \in {"/status", "status"}
    THEN IF s.position_active /\ s.entry_time # None THEN <<"POSITION_ACTIVE">>
         ELSE IF s.trade_executed_today /\ ~s.position_active
              THEN <<"POSITION_CLOSED">>
              ELSE IF s.no_trade_reason # "none" THEN <<"NO_TRADE_TODAY">>
                   ELSE <<"WAITING">>
    ELSE IF text \in {"/help", "help"} THEN <<"HELP">>
         ELSE <<>>

\* a handler that forgets the reason of the day once it has reported it
HandleCommandClearsReason ==
    \E text \in CommandTexts :
        /\ sent' = handle_commands(G, text)
        /\ ev' = [NoEvent EXCEPT !.tick = "command"]
        /\ no_trade_reason' = "none"
        /\ UNCHANGED << base_price, day_high, day_low, prev_day_high, prev_day_low,
                        entry_time, call_entry_price, put_entry_price, call_strike,
                        put_strike, call_sl, put_sl, call_quantity, put_quantity,
                        call_product_id, put_product_id, position_active, trade_mode,
                        trade_executed_today, logs, attempts, entry_days, clock, monitor >>

\* a text message arrives and handle_commands answers it
HandleCommand ==
    \E text \in CommandTexts :
        /\ sent' = handle_commands(G, text)
        /\ ev' = [NoEvent EXCEPT !.tick = "command"]
        /\ UNCHANGED << base_price, day_high, day_low, prev_day_high, prev_day_low,
                        entry_time, call_entry_price, put_entry_price, call_strike,
                        put_strike, call_sl, put_sl, call_quantity, put_quantity,
                        call_product_id, put_product_id, position_active, trade_mode,
                        trade_executed_today, no_trade_reason, logs, attempts,
                        entry_days, clock, monitor >>

\* "await asyncio.sleep(...)": the wall clock moves on to the next slot
Sleep(E) ==
    /\ monitor = "running"
    /\ clock + 1 \in E.times
    /\ clock' = clock + 1
    /\ sent' = <<>>
    /\ ev' = NoEvent
    /\ UNCHANGED << base_price, day_high, day_low, prev_day_high, prev_day_low,
                    entry_time, call_entry_price, put_entry_price, call_strike,
                    put_strike, call_sl, put_sl, call_quantity, put_quantity,
                    call_product_id, put_product_id, position_active, trade_mode,
                    trade_executed_today, no_trade_reason, logs, attempts,
                    entry_days, monitor >>

\* the globals as main.py initialises them, an empty log, the bot started in the
\* night of the first day
Init ==
    /\ base_price = None
    /\ day_high = None
    /\ day_low = None
    /\ prev_day_high = None
    /\ prev_day_low = None
    /\ entry_time = None
    /\ call_entry_price = None
    /\ put_entry_price = None
    /\ call_strike = None
    /\ put_strike = None
    /\ call_sl = None
    /\ put_sl = None
    /\ call_quantity = None
    /\ put_quantity = None
    /\ call_product_id = None
    /\ put_product_id = None
    /\ position_active = FALSE
    /\ trade_mode = "REAL"
    /\ trade_executed_today = FALSE
    /\ no_trade_reason = "none"
    /\ logs = <<>>
    /\ clock = 2
    /\ sent = <<>>
    /\ ev = NoEvent
    /\ attempts = [d \in Days |-> 0]
    /\ entry_days = {}
    /\ monitor = "running"

RichTick == PricedTick(Rich)

RichSleep == Sleep(Rich)

RichRaise == RaisedTick(Rich)

Next == RichTick \/ UnpricedTick \/ RichRaise \/ RichSleep

\* the first day and the midnight after it, with every answer of the feeds
Spec == Init /\ [][Next]_vars

\* the first morning with the answers of Lean
Morning == [Lean EXCEPT !.times = 1 .. LiveMaxClock]

MorningTick == PricedTick(Morning)

MorningRaise == RaisedTick(Morning)

MorningSleep == Sleep(Morning)

NextLive == MorningTick \/ UnpricedTick \/ MorningRaise \/ MorningSleep

\* "while True": the loop body runs again after every sleep, with a price,
\* without one, or into an error
LoopBody == MorningTick \/ UnpricedTick \/ MorningRaise

\* the first morning under "while True"
SpecLive == Init /\ [][NextLive]_vars /\ WF_vars(LoopBody)

LeanTick == PricedTick(Lean)

LeanSleep == Sleep(Lean)

LeanRaise == RaisedTick(Lean)

NextDays == LeanTick \/ UnpricedTick \/ LeanRaise \/ LeanSleep \/ HandleCommand

\* several days, with the fewer answers of Lean and with the user's messages
SpecDays == Init /\ [][NextDays]_vars

\* ---------------------------------------------------- the entry gate closely
\* A night and an entry minute with spots that spread the day's range and with
\* premiums on both sides of the balance and minimum-premium thresholds.
GatePrices == {95, 97, 98, 103, 104, 105}

GatePremiums == {7, 10, 30, 32}

Wide ==
    [times |-> 1 .. GateMaxClock, prices |-> GatePrices,
     hv |-> { <<h, h>> : h \in HVValues }, chains |-> {FullChain},
     entry_premiums |-> GatePremiums, exit_premiums |-> {0}, drift |-> {0}]

GateTick == PricedTick(Wide)

GateSleep == Sleep(Wide)

NextGate == GateTick \/ UnpricedTick \/ GateSleep

\* the start of the first day up to the entry minute
SpecGate == Init /\ [][NextGate]_vars

\* ------------------------------------------------- the pass at its awaits
\* The monitor task gives way to the command handler at its awaits only: the
\* notify_telegram calls of execute_entry and check_exit_conditions and the
\* sleep that ends the pass.  Here monitor is where the task is suspended
\* ("running": in the sleep between two passes) and ev is what the suspended
\* pass carries: the globals at the awaits still to come (pending), the globals
\* execute_entry returns with (ret), the spot and the clock the pass read, and
\* the values the last opening attempt computed for its position (opening).
Awaited ==
    [Lean EXCEPT !.times = 1 .. AwaitMaxClock, !.chains = {FullChain},
                 !.entry_premiums = {4, 16}]

NoOpening ==
    [ entry_time |-> None, call_strike |-> None, call_entry_price |-> None,
      put_strike |-> None, put_entry_price |-> None, call_sl |-> None,
      put_sl |-> None ]

\* what an attempt computes for the position it opens (main.py:450-455, 527)
Opening(spot_price, at, in) ==
    LET otm_pct == IF in.hv2 < LOW_IV_HV THEN OTM_LOW_IV ELSE OTM_PERCENTAGE
        sel == find_best_strikes(spot_price, otm_pct, in.chain)
    IN  [ entry_time |-> at,
          call_strike |-> sel.best_call.strike,
          call_entry_price |-> in.call_premium,
          put_strike |-> sel.best_put.strike,
          put_entry_price |-> in.put_premium,
          call_sl |-> in.call_premium * SL_MULTIPLIER,
          put_sl |-> in.put_premium * SL_MULTIPLIER ]

\* an entry that marks the position active where it sets the strikes, before
\* the messages of the balance and minimum-premium checks
entry_suspensions_active_early(s, spot_price, at, in) ==
    LET cm == check_market_conditions(spot_price, s.day_high, s.day_low, in.hv1, at)
        otm_pct == IF in.hv2 < LOW_IV_HV THEN OTM_LOW_IV ELSE OTM_PERCENTAGE
        sel == find_best_strikes(spot_price, otm_pct, in.chain)
        call_premium == IF sel.found THEN in.call_premium ELSE 0
        put_premium == IF sel.found THEN in.put_premium ELSE 0
        done == execute_entry(s, spot_price, at, in)
        s0 == IF cm.is_valid THEN s ELSE Downgrade(s, "NO_TRADE_UNSUITABLE")
        unsuitable == IF cm.is_valid THEN <<>> ELSE <<s0>>
    IN  IF in.chain = <<>> \/ ~sel.found \/ call_premium = 0 \/ put_premium = 0
        THEN unsuitable \o <<done>>
        ELSE LET s1 == [s0 EXCEPT !.call_strike = sel.best_call.strike,
                                  !.put_strike = sel.best_put.strike,
                                  !.call_entry_price = call_premium,
                                  !.put_entry_price = put_premium,
                                  !.call_sl = call_premium * SL_MULTIPLIER,
                                  !.put_sl = put_premium * SL_MULTIPLIER,
                                  !.call_product_id = sel.best_call.product_id,
                                  !.put_product_id = sel.best_put.product_id,
                                  !.position_active = TRUE]
                 top == Max(call_premium, put_premium)
                 balanced ==
                     IF top > 0
                     THEN 10 * Abs(call_premium - put_premium)
                              <= PREMIUM_BALANCE_RATIO * top
                     ELSE FALSE
                 s2 == IF balanced THEN s1
                       ELSE [Downgrade(s1, "NO_TRADE_IMBALANCE")
                                 EXCEPT !.no_trade_reason = "Premium imbalance"]
                 enough == call_premium + put_premium >= MIN_COMBINED_PREMIUM
                 s3 == IF enough THEN s2
                       ELSE [Downgrade(s2, "NO_TRADE_LOW_PREMIUM")
                                 EXCEPT !.no_trade_reason = "Combined premium low"]
             IN  unsuitable
                   \o (IF balanced THEN <<>> ELSE <<s2>>)
                   \o (IF enough THEN <<>> ELSE <<s3>>)
                   \o (IF s3.trade_mode = "REAL" THEN <<done>> ELSE <<>>)

\* The globals at each "await notify_telegram" of execute_entry, in order: after
\* the downgrade of an unsuitable market (main.py:398-412); at an early return
\* (427, 442); after the strikes, premiums and stops are set and the balance
\* check has failed (450-490); after the minimum-premium check has failed
\* (504-515); and, in REAL mode, after the position is made active (524-548).
entry_suspensions(s, spot_price, at, in) ==
    LET cm == check_market_conditions(spot_price, s.day_high, s.day_low, in.hv1, at)
        otm_pct == IF in.hv2 < LOW_IV_HV THEN OTM_LOW_IV ELSE OTM_PERCENTAGE
        sel == find_best_strikes(spot_price, otm_pct, in.chain)
        call_premium == IF sel.found THEN in.call_premium ELSE 0
        put_premium == IF sel.found THEN in.put_premium ELSE 0
        done == execute_entry(s, spot_price, at, in)
        s0 == IF cm.is_valid THEN s ELSE Downgrade(s, "NO_TRADE_UNSUITABLE")
        unsuitable == IF cm.is_valid THEN <<>> ELSE <<s0>>
    IN  IF in.chain = <<>> \/ ~sel.found \/ call_premium = 0 \/ put_premium = 0
        THEN unsuitable \o <<done>>
        ELSE LET s1 == [s0 EXCEPT !.call_strike = sel.best_call.strike,
                                  !.put_strike = sel.best_put.strike,
                                  !.call_entry_price = call_premium,
                                  !.put_entry_price = put_premium,
                                  !.call_sl = call_premium * SL_MULTIPLIER,
                                  !.put_sl = put_premium * SL_MULTIPLIER,
                                  !.call_product_id = sel.best_call.product_id,
                                  !.put_product_id = sel.best_put.product_id]
                 top == Max(call_premium, put_premium)
                 balanced ==
                     IF top > 0
                     THEN 10 * Abs(call_premium - put_premium)
                              <= PREMIUM_BALANCE_RATIO * top
                     ELSE FALSE
                 s2 == IF balanced THEN s1
                       ELSE [Downgrade(s1, "NO_TRADE_IMBALANCE")
                                 EXCEPT !.no_trade_reason = "Premium imbalance"]
                 enough == call_premium + put_premium >= MIN_COMBINED_PREMIUM
                 s3 == IF enough THEN s2
                       ELSE [Downgrade(s2, "NO_TRADE_LOW_PREMIUM")
                                 EXCEPT !.no_trade_reason = "Combined premium low"]
             IN  unsuitable
                   \o (IF balanced THEN <<>> ELSE <<s2>>)
                   \o (IF enough THEN <<>> ELSE <<s3>>)
                   \o (IF s3.trade_mode = "REAL" THEN <<done>> ELSE <<>>)

\* the rest of the pass once execute_entry has returned (or was not called):
\* check_exit_conditions, which awaits its message after a close in REAL mode,
\* then the midnight block and the sleep
FinishPass(E, s, spot_price, now, opening) ==
    \E x \in (IF s.position_active THEN ExitInputs(E, now) ELSE {NoExitInput(now)}) :
        LET s3 == IF s.position_active
                  THEN check_exit_conditions(s, spot_price, x.at, x.call, x.put)
                  ELSE s
        IN  /\ clock' = x.at
            /\ IF s3.closed # "none" /\ s3.trade_mode = "REAL"
               THEN /\ Commit(s3)
                    /\ monitor' = "check_exit_conditions"
                    /\ ev' = [ev EXCEPT !.tick = "exit", !.pending = <<>>,
                                        !.now = now, !.opening = opening]
               ELSE /\ Commit(midnight_reset(s3, now))
                    /\ monitor' = "running"
                    /\ ev' = [ev EXCEPT !.tick = "pass", !.pending = <<>>,
                                        !.now = now, !.opening = opening]

\* a pass starts: it runs to its first await, which is the sleep when
\* execute_entry sends nothing (a VIRTUAL day whose checks all pass)
StartPass(E) ==
    /\ monitor = "running"
    /\ \E current_price \in E.prices :
          LET now == clock
              s1 == update_high_low(G, current_price)
          IN  IF EntryTrigger(s1, now)
              THEN \E in \in EntryInputs(E) :
                      LET s2 == [s1 EXCEPT !.base_price = current_price]
                          ret == execute_entry(s2, current_price, now, in)
                          seq == entry_suspensions(s2, current_price, now, in)
                          opening == IF ret.position_active
                                     THEN Opening(current_price, now, in)
                                     ELSE ev.opening
                      IN  IF seq # <<>>
                          THEN /\ Commit(Head(seq))
                               /\ monitor' = "execute_entry"
                               /\ ev' = [ tick |-> "entry", pending |-> Tail(seq),
                                          ret |-> ret, spot |-> current_price,
                                          now |-> now, opening |-> opening ]
                               /\ UNCHANGED clock
                          ELSE FinishPass(E, [ret EXCEPT !.trade_executed_today = TRUE],
                                          current_price, now, opening)
              ELSE FinishPass(E, s1, current_price, now, ev.opening)
    /\ UNCHANGED << attempts, entry_days >>

\* notify_telegram returns inside execute_entry and another await follows
ResumeEntry ==
    /\ monitor = "execute_entry"
    /\ ev.pending # <<>>
    /\ Commit(Head(ev.pending))
    /\ ev' = [ev EXCEPT !.pending = Tail(@)]
    /\ UNCHANGED << clock, monitor, attempts, entry_days >>

\* the last await of execute_entry is over: it returns the globals ret, the
\* loop sets trade_executed_today and goes on
ReturnFromEntry(E) ==
    /\ monitor = "execute_entry"
    /\ ev.pending = <<>>
    /\ FinishPass(E, [ev.ret EXCEPT !.trade_executed_today = TRUE,
                                    !.sent = <<>>], ev.spot, ev.now, ev.opening)
    /\ UNCHANGED << attempts, entry_days >>

\* the exit message is out: the midnight block and the sleep
ResumeExit ==
    /\ monitor = "check_exit_conditions"
    /\ Commit(midnight_reset(G, ev.now))
    /\ monitor' = "running"
    /\ ev' = [ev EXCEPT !.tick = "pass"]
    /\ UNCHANGED << clock, attempts, entry_days >>

\* the sleep between two passes: the wall clock moves on to the next slot
SleepBetween(E) ==
    /\ monitor = "running"
    /\ clock + 1 \in E.times
    /\ clock' = clock + 1
    /\ sent' = <<>>
    /\ UNCHANGED << base_price, day_high, day_low, prev_day_high, prev_day_low,
                    entry_time, call_entry_price, put_entry_price, call_strike,
                    put_strike, call_sl, put_sl, call_quantity, put_quantity,
                    call_product_id, put_product_id, position_active, trade_mode,
                    trade_executed_today, no_trade_reason, logs, ev, attempts,
                    entry_days, monitor >>

\* the reply of handle_commands to "/status", with the globals the reply of an
\* active position is formatted from
status_report(s) ==
    IF s.position_active /\ s.entry_time # None
    THEN << "POSITION_ACTIVE",
            [ entry_time |-> s.entry_time,
              call_strike |-> s.call_strike,
              call_entry_price |-> s.call_entry_price,
              put_strike |-> s.put_strike,
              put_entry_price |-> s.put_entry_price,
              call_sl |-> s.call_sl,
              put_sl |-> s.put_sl ] >>
    ELSE handle_commands(s, "/status")

\* a status query is answered while the monitor task is suspended, wherever
StatusQuery ==
    /\ sent' = status_report(G)
    /\ UNCHANGED << base_price, day_high, day_low, prev_day_high, prev_day_low,
                    entry_time, call_entry_price, put_entry_price, call_strike,
                    put_strike, call_sl, put_sl, call_quantity, put_quantity,
                    call_product_id, put_product_id, position_active, trade_mode,
                    trade_executed_today, no_trade_reason, logs, clock, ev,
                    attempts, entry_days, monitor >>

AwaitInit ==
    /\ base_price = None
    /\ day_high = None
    /\ day_low = None
    /\ prev_day_high = None
    /\ prev_day_low = None
    /\ entry_time = None
    /\ call_entry_price = None
    /\ put_entry_price = None
    /\ call_strike = None
    /\ put_strike = None
    /\ call_sl = None
    /\ put_sl = None
    /\ call_quantity = None
    /\ put_quantity = None
    /\ call_product_id = None
    /\ put_product_id = None
    /\ position_active = FALSE
    /\ trade_mode = "REAL"
    /\ trade_executed_today = FALSE
    /\ no_trade_reason = "none"
    /\ logs = <<>>
    /\ clock = 2
    /\ sent = <<>>
    /\ ev = [ tick |-> "none", pending |-> <<>>, ret |-> None, spot |-> None,
              now |-> None, opening |-> NoOpening ]
    /\ attempts = [d \in Days |-> 0]
    /\ entry_days = {}
    /\ monitor = "running"

AwaitedStart == StartPass(Awaited)

AwaitedReturn == ReturnFromEntry(Awaited)

AwaitedSleep == SleepBetween(Awaited)

NextAwait ==
    \/ AwaitedStart
    \/ ResumeEntry
    \/ AwaitedReturn
    \/ ResumeExit
    \/ AwaitedSleep
    \/ StatusQuery

SpecAwait == AwaitInit /\ [][NextAwait]_vars

\* ------------------------------------------------ a ticker below zero
\* get_option_premium returns float(mark_price) of the ticker as it comes: the
\* first day up to the entry minute with premiums of either sign
SignedPremiums == {-4, 0, 16}

Signed == [Lean EXCEPT !.times = 1 .. GateMaxClock, !.entry_premiums = SignedPremiums]

SignedTick == PricedTick(Signed)

SignedSleep == Sleep(Signed)

NextSigned == SignedTick \/ UnpricedTick \/ SignedSleep

SpecSigned == Init /\ [][NextSigned]_vars

\* ------------------------------------------- the strike selection alone
\* the chains find_best_strikes is asked about: up to MaxChain contracts of
\* either type, the id of a contract being its place in the chain
StrikeValues == {97, 99, 101, 103}

Contracts == [type : {"call", "put"}, strike : StrikeValues]

RECURSIVE ChainsOfLength(_)
ChainsOfLength(n) ==
    IF n = 0 THEN { <<>> }
    ELSE { Append(ch, [id |-> n, type |-> c.type, strike |-> c.strike]) :
               ch \in ChainsOfLength(n - 1), c \in Contracts }

QueryChains == UNION { ChainsOfLength(n) : n \in 0 .. MaxChain }

\* the globals as main.py initialises them; ev is the call about to be made:
\* find_best_strikes(spot_price, otm_pct, chain)
StrikesInit ==
    /\ base_price = None
    /\ day_high = None
    /\ day_low = None
    /\ prev_day_high = None
    /\ prev_day_low = None
    /\ entry_time = None
    /\ call_entry_price = None
    /\ put_entry_price = None
    /\ call_strike = None
    /\ put_strike = None
    /\ call_sl = None
    /\ put_sl = None
    /\ call_quantity = None
    /\ put_quantity = None
    /\ call_product_id = None
    /\ put_product_id = None
    /\ position_active = FALSE
    /\ trade_mode = "REAL"
    /\ trade_executed_today = FALSE
    /\ no_trade_reason = "none"
    /\ logs = <<>>
    /\ clock = 3
    /\ sent = <<>>
    /\ \E otm_pct \in {OTM_LOW_IV, OTM_PERCENTAGE}, chain \in QueryChains :
          ev = [tick |-> "query", spot_price |-> 100, otm_pct |-> otm_pct,
                chain |-> chain]
    /\ attempts = [d \in Days |-> 0]
    /\ entry_days = {}
    /\ monitor = "running"

\* "best_call, best_put = find_best_strikes(spot_price, otm_pct, options_chain)"
\* and the globals execute_entry sets from the selection
SelectStrikes ==
    /\ ev.tick = "query"
    /\ LET sel == find_best_strikes(ev.spot_price, ev.otm_pct, ev.chain)
       IN  IF sel.found
           THEN /\ call_strike' = sel.best_call.strike
                /\ put_strike' = sel.best_put.strike
                /\ call_product_id' = sel.best_call.product_id
                /\ put_product_id' = sel.best_put.product_id
                /\ ev' = [ev EXCEPT !.tick = "selected"]
           ELSE /\ UNCHANGED << call_strike, put_strike, call_product_id,
                                put_product_id >>
                /\ ev' = [ev EXCEPT !.tick = "no selection"]
    /\ UNCHANGED << base_price, day_high, day_low, prev_day_high, prev_day_low,
                    entry_time, call_entry_price, put_entry_price, call_sl, put_sl,
                    call_quantity, put_quantity, position_active, trade_mode,
                    trade_executed_today, no_trade_reason, logs, clock, sent,
                    attempts, entry_days, monitor >>

NextStrikes == SelectStrikes

SpecStrikes == StrikesInit /\ [][NextStrikes]_vars

\* ------------------------------------------------------- the sizer alone
\* the premiums calculate_position_size is asked about
Premiums == 0 .. MaxPremium

\* the globals as main.py initialises them, but for the premiums of the two
\* legs execute_entry is about to size
SizerInit ==
    /\ base_price = None
    /\ day_high = None
    /\ day_low = None
    /\ prev_day_high = None
    /\ prev_day_low = None
    /\ entry_time = None
    /\ call_entry_price \in Premiums
    /\ put_entry_price \in Premiums
    /\ call_strike = None
    /\ put_strike = None
    /\ call_sl = None
    /\ put_sl = None
    /\ call_quantity = None
    /\ put_quantity = None
    /\ call_product_id = None
    /\ put_product_id = None
    /\ position_active = FALSE
    /\ trade_mode = "REAL"
    /\ trade_executed_today = FALSE
    /\ no_trade_reason = "none"
    /\ logs = <<>>
    /\ clock = 3
    /\ sent = <<>>
    /\ ev = NoEvent
    /\ attempts = [d \in Days |-> 0]
    /\ entry_days = {}
    /\ monitor = "running"

\* "call_qty = calculate_position_size(call_premium)" and the same for the put
SizeLegs ==
    /\ call_quantity = None /\ put_quantity = None
    /\ call_quantity' = calculate_position_size(call_entry_price)
    /\ put_quantity' = calculate_position_size(put_entry_price)
    /\ UNCHANGED << base_price, day_high, day_low, prev_day_high, prev_day_low,
                    entry_time, call_entry_price, put_entry_price, call_strike,
                    put_strike, call_sl, put_sl, call_product_id, put_product_id,
                    position_active, trade_mode, trade_executed_today,
                    no_trade_reason, logs, clock, sent, ev, attempts, entry_days, monitor >>

NextSizer == SizeLegs

\* calculate_position_size applied to every pair of premiums
SpecSizer == SizerInit /\ [][NextSizer]_vars

\* -------------------------------------------------------- the log alone
\* Any sequence of appends and amendments of trade_logs.json.  attempts counts
\* the appended records under day 1; a record carries its number as id.
LogExits == {"SL_HIT_CALL", "TIME_EXIT_1715"}

LogRecord(n) ==
    [ id |-> n, status |-> "EXECUTED",
      exit_reason |-> "none", exit_price |-> None, exit_time |-> None ]

Amended(file) == { i \in DOMAIN file : file[i].exit_reason # "none" }

LogUnchanged ==
    UNCHANGED << base_price, day_high, day_low, prev_day_high, prev_day_low,
                 entry_time, call_entry_price, put_entry_price, call_strike,
                 put_strike, call_sl, put_sl, call_quantity, put_quantity,
                 call_product_id, put_product_id, position_active, trade_mode,
                 trade_executed_today, no_trade_reason, clock, sent,
                 entry_days, monitor >>

\* a call of log_trade_decision
AppendRecord ==
    /\ attempts[1] < MaxAppends
    /\ logs' = log_trade_decision(logs, LogRecord(attempts[1] + 1))
    /\ attempts' = [attempts EXCEPT ![1] = @ + 1]
    /\ ev' = [NoEvent EXCEPT !.tick = "append"]
    /\ LogUnchanged

\* a call of update_trade_log
AmendLast ==
    /\ \E exit_reason \in LogExits :
          LET file == update_trade_log(logs, exit_reason, 1, clock)
          IN  /\ Cardinality(Amended(file)) <= MaxAmended
              /\ logs' = file
    /\ ev' = [NoEvent EXCEPT !.tick = "amend"]
    /\ UNCHANGED attempts
    /\ LogUnchanged

NextLog == AppendRecord \/ AmendLast

SpecLog == Init /\ [][NextLog]_vars

\* ------------------------------------------------------------ properties
Range(f) == { f[i] : i \in DOMAIN f }

RECURSIVE SumOver(_, _)
SumOver(f, S) ==
    IF S = {} THEN 0
    ELSE LET d == CHOOSE e \in S : TRUE IN f[d] + SumOver(f, S \ {d})

\* the record the last attempt appended (and the last close amended)
LastRecord == logs[Len(logs)]

OpenedStatus == {"EXECUTED", "VIRTUAL_TRACKING"}

AbortStatus == {"SKIPPED_NO_DATA", "SKIPPED_NO_PREMIUM"}

\* the four suitability checks of a record: none was failed / all were passed
FailedSome(r) ==
    \/ r.trend \in {"near_high", "near_low"}
    \/ r.volatility = "fail"
    \/ r.premium_balance = "fail"
    \/ r.min_premium = "fail"

PassedAll(r) ==
    /\ r.trend \notin {"near_high", "near_low"}
    /\ r.volatility = "pass"
    /\ r.premium_balance = "pass"
    /\ r.min_premium = "pass"

\* C1: on every day that has a priced tick in the 08:00 minute exactly one entry
\* attempt is made (one call of execute_entry, one record appended), no day has a
\* second attempt, and no attempt is made outside the 08:00 minute.
OneAttemptPerEntryDay ==
    /\ \A d \in Days : attempts[d] <= 1
    /\ \A d \in entry_days : attempts[d] = 1
    /\ Len(logs) = SumOver(attempts, Days)
    /\ \A i \in DOMAIN logs : Slot(logs[i].timestamp) = "08:00"

\* C2: an attempt that opens a position is REAL (status EXECUTED) if and only if
\* it passed all of the trend, volatility, premium balance and minimum premium
\* checks, whatever the earlier days' attempts were.
ModeFollowsChecks ==
    /\ \A i \in DOMAIN logs :
          logs[i].status \in OpenedStatus
              => (logs[i].status = "EXECUTED" <=> PassedAll(logs[i]))
    /\ (position_active /\ logs # <<>>)
          => (trade_mode = "REAL" <=> PassedAll(LastRecord))

\* the entry attempt of this tick found a contract of each type and a non-zero
\* premium for each selected leg
EntryDataComplete ==
    /\ ev.attempted
    /\ ev.has_call /\ ev.has_put
    /\ ev.entry_call_premium # 0 /\ ev.entry_put_premium # 0

\* C3: an attempt with complete data that fails a suitability check does not
\* abort: the position is opened, the mode is VIRTUAL, the record appended has
\* status VIRTUAL_TRACKING, no execution alert is sent, and the exit monitor
\* runs on every priced tick that leaves a position active.
FailedCheckTracksVirtually ==
    /\ (EntryDataComplete /\ FailedSome(LastRecord))
          => /\ ev.opened
             /\ ev.monitored
             /\ trade_mode = "VIRTUAL"
             /\ LastRecord.status = "VIRTUAL_TRACKING"
             /\ LastRecord.timestamp = entry_time
             /\ "SHORT_STRANGLE_EXECUTED" \notin Range(sent)
             /\ position_active <=> ev.closed = "none"
    /\ (position_active /\ ev.tick = "priced") => ev.monitored

\* a VIRTUAL position opened by an attempt that failed a check is still active
\* after the tick
VirtualPositionOpened ==
    /\ EntryDataComplete
    /\ FailedSome(LastRecord)
    /\ position_active
    /\ trade_mode = "VIRTUAL"

\* C4: an attempt that finds no contract of one type, or a zero premium for a
\* leg, opens nothing: no position is active, exactly one record is appended and
\* its status is SKIPPED_NO_DATA or SKIPPED_NO_PREMIUM, and trade_executed_today
\* is set.
MissingDataAborts ==
    (ev.attempted /\ ~EntryDataComplete)
        => /\ ~ev.opened
           /\ ~ev.monitored
           /\ ~position_active
           /\ Len(logs) = SumOver(attempts, Days)
           /\ LastRecord.status =
                 IF ev.has_call /\ ev.has_put THEN "SKIPPED_NO_PREMIUM"
                 ELSE "SKIPPED_NO_DATA"
           /\ LastRecord.timestamp = clock
           /\ trade_executed_today

\* an attempt aborted because a leg has no premium
AbortedNoPremium ==
    /\ ev.attempted
    /\ ev.has_call /\ ev.has_put
    /\ ev.entry_call_premium = 0
    /\ LastRecord.status = "SKIPPED_NO_PREMIUM"
    /\ ~position_active

\* the fields execute_entry writes when it opens a position
PositionFields ==
    << call_strike, put_strike, call_entry_price, put_entry_price, call_sl, put_sl,
       call_quantity, put_quantity, call_product_id, put_product_id, entry_time >>

\* C5: while a position is active no step calls execute_entry, and no step
\* changes the strikes, entry premiums, stop prices, quantities, contract ids or
\* entry time of the active position.
ActivePositionNotOverwritten ==
    [][position_active => (~ev'.attempted /\ PositionFields' = PositionFields)]_vars

\* a priced tick in the 08:00 minute of a later day, with the daily flag clear,
\* that made no attempt because the position of an earlier day is still active
TriggerHeldBackByPosition ==
    /\ position_active
    /\ ev.tick = "priced"
    /\ ~ev.attempted
    /\ Slot(clock) = "08:00"
    /\ ~trade_executed_today
    /\ Day(entry_time) < Day(clock)

\* the exit monitor ran on this tick and found a stop hit: the call's, or the
\* put's with the call's not hit
CallStopHit == ev.monitored /\ ev.curr_call >= call_sl

PutStopHit == ev.monitored /\ ev.curr_call < call_sl /\ ev.curr_put >= put_sl

\* the tick closed the position with this reason and price and amended the record
ClosedWith(reason, price) ==
    /\ ev.closed = reason
    /\ ev.closed_price = price
    /\ ~position_active
    /\ LastRecord.exit_reason = reason
    /\ LastRecord.exit_price = price

\* C6: on a tick that monitors an active position, a current premium of the
\* call at or above 5 x its entry premium closes the position with SL_HIT_CALL
\* at that premium; otherwise a current premium of the put at or above 5 x its
\* entry premium closes it with SL_HIT_PUT at that premium; in the 12:30 and
\* 17:15 minutes too, where a time exit is recorded only if no stop was hit.
StopLossClosesFirst ==
    ev.monitored
        => /\ call_sl = SL_MULTIPLIER * call_entry_price
           /\ put_sl = SL_MULTIPLIER * put_entry_price
           /\ CallStopHit => ClosedWith("SL_HIT_CALL", ev.curr_call)
           /\ PutStopHit => ClosedWith("SL_HIT_PUT", ev.curr_put)
           /\ (CallStopHit \/ PutStopHit)
                 => ev.closed \notin {"TIME_EXIT_1230", "TIME_EXIT_1715"}

\* the put's premium reaches exactly its stop in the 12:30 minute and the call's
\* does not
PutStopAtHalfPastTwelve ==
    /\ PutStopHit
    /\ ev.curr_put = put_sl
    /\ Slot(clock) = "12:30"
    /\ ev.closed = "SL_HIT_PUT"

\* C7: on a tick that monitors an active position with no stop hit, if the
\* clock check_exit_conditions reads is in the 12:30 minute the position is
\* closed with TIME_EXIT_1230 at the tick's spot, and if it is in the 17:15
\* minute with TIME_EXIT_1715 at the tick's spot, wherever the spot lies with
\* respect to the day's high and low.
TimeExitCloses ==
    (ev.monitored /\ ~CallStopHit /\ ~PutStopHit)
        => /\ Slot(clock) = "12:30" => ClosedWith("TIME_EXIT_1230", ev.spot)
           /\ Slot(clock) = "17:15" => ClosedWith("TIME_EXIT_1715", ev.spot)
           /\ LastRecord.exit_time = IF ev.closed = "none" THEN None ELSE clock

\* a time exit at 17:15 on a tick whose spot is the highest of the day
TimeExitAtDayHigh ==
    /\ ev.monitored /\ ~CallStopHit /\ ~PutStopHit
    /\ Slot(clock) = "17:15"
    /\ ev.closed = "TIME_EXIT_1715"
    /\ ev.spot = day_high
    /\ day_low < day_high

\* C10: every close amends the last record, which is the closed position's,
\* with the exit reason, the exit price and the exit time, and the exit message
\* is sent if and only if trade_mode is REAL.
CloseAmendsAndNotifiesReal ==
    ev.closed # "none"
        => /\ ~position_active
           /\ LastRecord.timestamp = entry_time
           /\ LastRecord.status \in OpenedStatus
           /\ LastRecord.exit_reason = ev.closed
           /\ LastRecord.exit_price = ev.closed_price
           /\ LastRecord.exit_time = clock
           /\ ev.closed \in Range(sent) <=> trade_mode = "REAL"

\* a VIRTUAL position closed by the tick, with nothing sent
VirtualCloseIsSilent ==
    /\ ev.closed # "none"
    /\ trade_mode = "VIRTUAL"
    /\ LastRecord.status = "VIRTUAL_TRACKING"
    /\ sent = <<>>

\* C8: on a tick of the first day that finds a position active, with no
\* stop hit and the exit monitor's clock outside the 12:30 and 17:15 minutes, a
\* spot strictly above the highest spot of the earlier ticks of the day closes
\* the position with DAY_HIGH_BREAKOUT at the spot, and a spot strictly below
\* the lowest closes it with DAY_LOW_BREAKDOWN at the spot.
BreakoutCloses ==
    [][(/\ Day(clock) = 1
        /\ position_active
        /\ ev'.monitored
        /\ ~CallStopHit' /\ ~PutStopHit'
        /\ Slot(clock') \notin {"12:30", "17:15"})
          => /\ (day_high # None /\ ev'.spot > day_high)
                   => ClosedWith("DAY_HIGH_BREAKOUT", ev.spot)'
             /\ (day_low # None /\ ev'.spot < day_low)
                   => ClosedWith("DAY_LOW_BREAKDOWN", ev.spot)']_vars

\* C9: a position is never opened on the calendar day on which an earlier
\* position was closed, and a position that is active has no exit recorded.
ClosedStaysClosedThatDay ==
    /\ \A i, j \in DOMAIN logs :
          (i < j /\ logs[i].exit_time # None /\ logs[j].status \in OpenedStatus)
              => Day(logs[i].exit_time) < Day(logs[j].timestamp)
    /\ position_active => LastRecord.exit_reason = "none"

\* no tick closes a position with a breakout reason
NoBreakoutExit == ev.closed \notin {"DAY_HIGH_BREAKOUT", "DAY_LOW_BREAKDOWN"}

\* p is the spot of the priced tick this step is: the high and the low the step
\* leaves are the ones the update made of it, and the entry gate and the exit
\* monitor saw that spot
SpotOfStep(p) ==
    /\ day_high' = update_high_low(G, p).day_high
    /\ day_low' = update_high_low(G, p).day_low
    /\ ev'.monitored => ev'.spot = p

\* C11: the update of a tick puts the spot between the low and the high of the
\* day; the entry gate and the exit monitor leave the high and the low as the
\* update made them; and outside the midnight minute a tick never lowers the
\* high nor raises the low.
SpotWithinDayRange ==
    [][/\ \A p \in Prices :
             LET s == update_high_low(G, p)
             IN  s.day_low <= p /\ p <= s.day_high
       /\ (ev'.tick = "priced" /\ Slot(clock) # "00:00")
             => /\ \E p \in Prices : SpotOfStep(p)
                /\ day_low' # None /\ day_low' <= day_high'
                /\ day_high # None => day_high' >= day_high
                /\ day_low # None => day_low' <= day_low
       /\ ev'.tick = "none" => (day_high' = day_high /\ day_low' = day_low)]_vars

\* a monitored tick whose spot is the low of a day whose high lies above it
NewLowWhileMonitored ==
    /\ ev.monitored
    /\ ev.spot = day_low
    /\ day_low < day_high
    /\ position_active

\* C12: a priced tick in the 00:00 minute leaves day_high, day_low and
\* base_price unset and trade_executed_today false, and the first priced tick
\* after it sets day_high and day_low to its spot.
MidnightClearsDay ==
    [][/\ (ev'.tick = "priced" /\ Slot(clock) = "00:00")
             => /\ day_high' = None /\ day_low' = None
                /\ base_price' = None
                /\ ~trade_executed_today'
       /\ (ev'.tick = "priced" /\ Slot(clock) # "00:00" /\ day_high = None)
             => \E p \in Prices : SpotOfStep(p) /\ day_high' = p /\ day_low' = p]_vars

\* what the midnight reset does clear
MidnightClearsAllButBase ==
    [][/\ (ev'.tick = "priced" /\ Slot(clock) = "00:00")
             => /\ day_high' = None /\ day_low' = None
                /\ ~trade_executed_today'
                /\ base_price' = base_price
       /\ (ev'.tick = "priced" /\ Slot(clock) # "00:00" /\ day_high = None)
             => \E p \in Prices : SpotOfStep(p) /\ day_high' = p /\ day_low' = p]_vars

\* the two legs have been sized
Sized == call_quantity # None \/ put_quantity # None

\* max(1, floor(risk_budget / (premium x (M - 1)))), the budget in cents
FlooredSize(premium) ==
    Max(1, RISK_PER_DAY_USD \div (100 * premium * (SL_MULTIPLIER - 1)))

\* C13: for every premium above zero the quantity calculate_position_size
\* returns is max(1, floor(11.76 / (premium x 4))).
SizeIsFlooredRatio ==
    Sized => /\ call_entry_price > 0 => call_quantity = FlooredSize(call_entry_price)
             /\ put_entry_price > 0 => put_quantity = FlooredSize(put_entry_price)

\* C14: over premiums above zero, the quantity calculate_position_size returns
\* is at least 1 and does not grow with the premium.
SizeNonIncreasing ==
    (Sized /\ call_entry_price > 0 /\ put_entry_price > 0)
        => /\ call_quantity >= 1 /\ put_quantity >= 1
           /\ call_entry_price <= put_entry_price => call_quantity >= put_quantity
           /\ call_entry_price >= put_entry_price => call_quantity <= put_quantity

\* a cheap call sized above one contract next to a put so dear that the ratio
\* is below one contract
CheapLegSizedAboveDearLeg ==
    /\ Sized
    /\ 0 < call_entry_price /\ call_entry_price < put_entry_price
    /\ call_quantity > put_quantity
    /\ put_quantity = 1
    /\ RISK_PER_DAY_USD < 10 * put_entry_price * (SL_MULTIPLIER - 1)

\* where the spot of the attempt lies in the range of the day, in tenths of the
\* range, as a comparison with n tenths
AtOrAbove(n) == 10 * (base_price - day_low) >= n * (day_high - day_low)

AtOrBelow(n) == 10 * (base_price - day_low) <= n * (day_high - day_low)

\* C15: on an attempt with day_high > day_low the trend check fails as an
\* uptrend exactly when spot >= day_low + 0.8 x range, fails as a downtrend
\* exactly when spot <= day_low + 0.2 x range and passes otherwise; a failed
\* trend check makes the mode VIRTUAL, and the position it opens is VIRTUAL.
TrendCheckThresholds ==
    (ev.attempted /\ day_high > day_low)
        => /\ LastRecord.trend = "near_high" <=> AtOrAbove(8)
           /\ LastRecord.trend = "near_low" <=> AtOrBelow(2)
           /\ LastRecord.trend = "range_bound" <=> (~AtOrAbove(8) /\ ~AtOrBelow(2))
           /\ LastRecord.trend \in {"near_high", "near_low"}
                 => /\ trade_mode = "VIRTUAL"
                    /\ "NO_TRADE_UNSUITABLE" \in Range(sent)
                    /\ LastRecord.status \in AbortStatus \cup {"VIRTUAL_TRACKING"}
                    /\ ev.opened => LastRecord.status = "VIRTUAL_TRACKING"

\* high 105, low 95, spot 104, every other check passed: the position is VIRTUAL
UptrendAtHundredAndFour ==
    /\ ev.attempted /\ ev.opened
    /\ day_high = 105 /\ day_low = 95 /\ base_price = 104
    /\ LastRecord.trend = "near_high"
    /\ LastRecord.volatility = "pass"
    /\ LastRecord.premium_balance = "pass"
    /\ LastRecord.min_premium = "pass"
    /\ trade_mode = "VIRTUAL"
    /\ position_active

\* |call - put| / max(call, put) <= 0.3 for the premiums the attempt read
RatioWithinBalance ==
    10 * Abs(ev.entry_call_premium - ev.entry_put_premium)
        <= PREMIUM_BALANCE_RATIO * Max(ev.entry_call_premium, ev.entry_put_premium)

\* C16: on an attempt that read two positive premiums the recorded
\* premium_balance check passes exactly when |call - put| / max(call, put) is at
\* most 0.3, and a failed one makes the attempt VIRTUAL.
BalanceCheckThreshold ==
    EntryDataComplete
        => /\ LastRecord.premium_balance = "pass" <=> RatioWithinBalance
           /\ LastRecord.premium_balance = "fail" <=> ~RatioWithinBalance
           /\ call_entry_price = ev.entry_call_premium
           /\ put_entry_price = ev.entry_put_premium
           /\ ~RatioWithinBalance
                 => /\ trade_mode = "VIRTUAL"
                    /\ LastRecord.status = "VIRTUAL_TRACKING"
                    /\ "NO_TRADE_IMBALANCE" \in Range(sent)
                    /\ no_trade_reason \in {"Premium imbalance", "Combined premium low"}

\* premiums 30 and 32 pass the balance check and the position is REAL
BalancedThirtyAndThirtyTwo ==
    /\ EntryDataComplete
    /\ ev.entry_call_premium = 30 /\ ev.entry_put_premium = 32
    /\ LastRecord.premium_balance = "pass"
    /\ LastRecord.status = "EXECUTED"
    /\ trade_mode = "REAL"

\* the pass/fail vector of a record
GateVector(r) == << r.trend, r.volatility, r.premium_balance, r.min_premium >>

\* the engine state s with another mode, another reason and the record of an
\* earlier attempt in the log
OtherPriorState(s) ==
    [s EXCEPT !.trade_mode = IF @ = "REAL" THEN "VIRTUAL" ELSE "REAL",
              !.no_trade_reason = "Premium imbalance",
              !.prev_day_high = s.day_high,
              !.logs = Append(@, [timestamp |-> None, trend |-> "near_low",
                                  volatility |-> "fail", premium_balance |-> "fail",
                                  min_premium |-> "fail", hv |-> MAX_HV + 1,
                                  status |-> "VIRTUAL_TRACKING",
                                  exit_reason |-> "TIME_EXIT_1715",
                                  exit_price |-> None, exit_time |-> None])]

\* C20: wherever the entry trigger is about to fire, the attempt records the
\* same pass/fail vector for the same spot, high, low, HV, chain and premiums
\* whether the engine comes to it in one mode or the other, with or without an
\* earlier outcome in the log.
GateVectorDeterministic ==
    \A p \in Wide.prices :
        LET s == update_high_low(G, p)
        IN  EntryTrigger(s, clock)
                => \A in \in EntryInputs(Wide) :
                      LET a == entry_step(s, p, clock, in)
                          b == entry_step(OtherPriorState(s), p, clock, in)
                      IN  /\ GateVector(a.logs[Len(a.logs)])
                                = GateVector(b.logs[Len(b.logs)])
                          /\ a.position_active = b.position_active

\* an attempt whose mode fell to VIRTUAL at the volatility check and whose
\* later checks still came out by their inputs: balance failed, minimum passed
MixedVectorAfterDowngrade ==
    /\ ev.attempted /\ ev.opened
    /\ GateVector(LastRecord) = << "range_bound", "fail", "fail", "pass" >>
    /\ trade_mode = "VIRTUAL"

\* the globals of the engine and its log
EngineState ==
    << base_price, day_high, day_low, prev_day_high, prev_day_low, entry_time,
       call_entry_price, put_entry_price, call_strike, put_strike, call_sl, put_sl,
       call_quantity, put_quantity, call_product_id, put_product_id,
       position_active, trade_mode, trade_executed_today, no_trade_reason, logs >>

\* C17: a tick on which the price feed returns no price changes no global and
\* not the log, and sends nothing, at any time of the day.
UnpricedTickChangesNothing ==
    [][ev'.tick = "unpriced"
          => /\ EngineState' = EngineState
             /\ sent' = <<>>
             /\ attempts' = attempts]_vars

\* a tick without a price in the midnight minute, the flags of the day before
\* still standing
UnpricedAtMidnight ==
    /\ ev.tick = "unpriced"
    /\ Slot(clock) = "00:00"
    /\ trade_executed_today
    /\ day_high # None

\* C18: handling a text message, command or not, changes no global and not
\* the log.
CommandsReadOnly ==
    [][ev'.tick = "command"
          => /\ EngineState' = EngineState
             /\ attempts' = attempts
             /\ clock' = clock]_vars

\* the status of a day whose attempt was rejected for a reason, reported while
\* the position it opened is closed
StatusOfClosedDayReported ==
    /\ ev.tick = "command"
    /\ sent = <<"POSITION_CLOSED">>
    /\ no_trade_reason # "none"
    /\ logs # <<>>

\* C19: the task of the monitor never ends, and after a pass that raised the
\* loop body runs again, with a price or without one.
RaisedTickIsSurvived ==
    /\ [](monitor = "running")
    /\ (ev.tick = "raised") ~> (ev.tick \in {"priced", "unpriced"})

\* the pass at the entry trigger raised: base_price is written, the attempt of
\* the day is not marked as made, and the monitor is still running
RaisedAtEntryTrigger ==
    /\ ev.tick = "raised"
    /\ monitor = "running"
    /\ base_price # None
    /\ ~trade_executed_today
    /\ logs = <<>>

\* the log holds the last min(n, LOG_RETENTION) of the n appended records, in
\* append order
LogWindow ==
    LET n == attempts[1]
    IN  /\ Len(logs) = IF n < LOG_RETENTION THEN n ELSE LOG_RETENTION
        /\ \A i \in DOMAIN logs : logs[i].id = n - Len(logs) + i

\* what an append and an amendment do to the records the log already holds
LogStep ==
    /\ ev'.tick = "append" =>
           /\ logs'[Len(logs')] = LogRecord(attempts[1] + 1)
           /\ \A i \in DOMAIN logs' :
                  i < Len(logs') => \E j \in DOMAIN logs : logs[j] = logs'[i]
    /\ ev'.tick = "amend" =>
           /\ Len(logs') = Len(logs)
           /\ \A i \in DOMAIN logs :
                  /\ i < Len(logs) => logs'[i] = logs[i]
                  /\ logs'[i].id = logs[i].id
                  /\ logs'[i].status = logs[i].status

\* C21: after any sequence of appends and amendments the log holds at most 30
\* records, exactly the most recent min(n, 30) appended ones in append order; an
\* amendment changes only the exit fields of the last record, never the number
\* or the order of the records.
LogKeepsLastThirty == [](LogWindow) /\ [][LogStep]_vars

\* more than 30 appends, the oldest two rolled out, an amended record behind the
\* last one
LogRolledOver ==
    /\ attempts[1] = LOG_RETENTION + 2
    /\ Len(logs) = LOG_RETENTION
    /\ logs[1].id = 3
    /\ \E i \in DOMAIN logs : i < Len(logs) /\ logs[i].exit_reason # "none"

\* C22: a priced tick in the midnight minute archives the outgoing day's high
\* and low, and once the minute has passed prev_day_high and prev_day_low are the
\* highest and lowest spot of the day that ended, however many priced ticks the
\* minute held.  Tick by tick: the first priced tick of the minute (day_high is
\* still set, or no spot was ever seen) archives the day's range widened by its
\* own spot, and a later priced tick of the same minute (day_high already reset,
\* an archive present) does not narrow the archive.
MidnightArchivesDay ==
    [][ (ev'.tick = "priced" /\ Slot(clock) = "00:00") =>
           IF day_high # None
           THEN \E p \in Prices :
                   /\ prev_day_high' = Max(day_high, p)
                   /\ prev_day_low' = IF p < day_low THEN p ELSE day_low
           ELSE prev_day_high # None =>
                   /\ prev_day_high' >= prev_day_high
                   /\ prev_day_low' <= prev_day_low ]_vars

\* the record without its exit fields
Unexited(r) ==
    [r EXCEPT !.exit_reason = "none", !.exit_price = None, !.exit_time = None]

\* C23: every entry attempt appends exactly one record, whatever its outcome
\* (position opened, no chain or strikes, no premiums), nothing else appends, and
\* every close amends the record appended by the attempt that opened the
\* position being closed (the record stamped with the position's entry time) and
\* leaves every other record as it was.
OneRecordPerAttempt ==
    [][ LET n == Len(logs)
            m == Len(logs')
        IN  /\ m = IF ev'.attempted THEN n + 1 ELSE n
            /\ \A i \in 1 .. n : i < m => logs'[i] = logs[i]
            /\ ev'.attempted =>
                   /\ logs'[m].timestamp = clock
                   /\ \A i \in 1 .. n : logs[i].timestamp # clock
                   /\ logs'[m].status \in
                          (IF ev'.opened THEN OpenedStatus
                           ELSE IF ev'.has_call /\ ev'.has_put
                                THEN {"SKIPPED_NO_PREMIUM"}
                                ELSE {"SKIPPED_NO_DATA"})
            /\ ev'.closed # "none" =>
                   /\ logs'[m].timestamp = entry_time'
                   /\ logs'[m].status \in OpenedStatus
                   /\ logs'[m].exit_reason = ev'.closed
                   /\ ~ev'.attempted => Unexited(logs'[m]) = Unexited(logs[n])
            /\ (ev'.closed = "none" /\ ~ev'.attempted) => logs' = logs ]_vars

\* a position opened on the second day and closed, behind the record of the
\* first day's hard abort, which kept its empty exit fields
ClosedBehindAbortRecord ==
    /\ Len(logs) = 2
    /\ logs[1].status \in AbortStatus
    /\ logs[1].exit_reason = "none"
    /\ logs[2].status \in OpenedStatus
    /\ ev.closed # "none"
    /\ ~ev.attempted
    /\ logs[2].exit_reason = ev.closed

\* C24: a leg premium <= 0 short-circuits the entry: no position is active with
\* a leg whose entry premium is <= 0, and every active position has a call
\* quantity >= 1 and a put quantity >= 1.
ActiveLegsPricedAndSized ==
    position_active =>
        /\ call_entry_price > 0
        /\ put_entry_price > 0
        /\ call_quantity >= 1
        /\ put_quantity >= 1

\* the contract with this id and strike is of the type and no contract of the
\* type is nearer to the target (in thousandths), nor as near and earlier
NearestOfType(chain, type, target, id, strike) ==
    \E i \in DOMAIN chain :
        /\ chain[i].type = type
        /\ chain[i].id = id
        /\ chain[i].strike = strike
        /\ \A k \in DOMAIN chain :
               chain[k].type = type =>
                   LET di == Abs(1000 * chain[i].strike - target)
                       dk == Abs(1000 * chain[k].strike - target)
                   IN  di < dk \/ (di = dk /\ i <= k)

\* C25: find_best_strikes returns, for each side on its own, the call whose
\* strike is nearest to spot x (1 + offset) among the calls of the chain and the
\* put whose strike is nearest to spot x (1 - offset) among the puts, the first
\* in chain order on a tie; it returns no selection if and only if the chain has
\* no call or no put.
NearestStrikesSelected ==
    /\ ev.tick = "selected" =>
           /\ NearestOfType(ev.chain, "call", ev.spot_price * (1000 + ev.otm_pct),
                            call_product_id, call_strike)
           /\ NearestOfType(ev.chain, "put", ev.spot_price * (1000 - ev.otm_pct),
                            put_product_id, put_strike)
    /\ ev.tick = "no selection" =>
           \/ \A i \in DOMAIN ev.chain : ev.chain[i].type # "call"
           \/ \A i \in DOMAIN ev.chain : ev.chain[i].type # "put"
    /\ ev.tick = "selected" =>
           /\ \E i \in DOMAIN ev.chain : ev.chain[i].type = "call"
           /\ \E i \in DOMAIN ev.chain : ev.chain[i].type = "put"

\* two calls as near to the target as each other (101 and 103 around 102): the
\* earlier one in chain order, the second contract, is selected
TiedCallsFirstSelected ==
    /\ ev.tick = "selected"
    /\ ev.otm_pct = OTM_PERCENTAGE
    /\ Len(ev.chain) = 3
    /\ ev.chain[2].type = "call" /\ ev.chain[2].strike = 103
    /\ ev.chain[3].type = "call" /\ ev.chain[3].strike = 101
    /\ call_product_id = 2

\* C26: no position stays active across a midnight reset: a position opened by
\* the 08:00 entry is closed by a stop-loss, a time exit or a breakout before the
\* next midnight tick, whichever ticks the price feed fails on.
NoPositionAtMidnight ==
    (Slot(clock) = "00:00" /\ ev.tick \in {"priced", "unpriced"}) => ~position_active

\* C27: a status query answered at any await of a tick never sees a torn
\* position: when it reports the position as active, the entry time, strikes,
\* entry premiums and stops it reports are all set and are the ones computed by
\* the attempt that opened the position.
StatusNeverTorn ==
    (sent # <<>> /\ sent[1] = "POSITION_ACTIVE") =>
        /\ sent[2] = ev.opening
        /\ \A f \in DOMAIN sent[2] : sent[2][f] # None

\* the second day's position reported as active while execute_entry is still
\* suspended in its last notification, a position of the first day behind it
ActiveReportedAtAwait ==
    /\ sent # <<>> /\ sent[1] = "POSITION_ACTIVE"
    /\ monitor = "execute_entry"
    /\ Day(clock) = 2
    /\ sent[2].entry_time = clock
    /\ Len(logs) = 2
    /\ logs[1].status \in OpenedStatus

\* C28: the status query answers "Position Closed" only on a day on which a
\* position was opened and later closed; on a day whose entry attempt was a hard
\* abort it answers with the no-trade state and its reason.
ClosedReportedOnlyAfterClose ==
    ev.tick = "command" =>
        /\ sent = <<"POSITION_CLOSED">> =>
               /\ logs # <<>>
               /\ LastRecord.status \in OpenedStatus
               /\ Day(LastRecord.timestamp) = Day(clock)
               /\ LastRecord.exit_reason # "none"
        /\ (/\ logs # <<>>
            /\ LastRecord.status \in AbortStatus
            /\ Day(LastRecord.timestamp) = Day(clock))
               => sent \in { <<"NO_TRADE_TODAY">>, <<"HELP">>, <<>> }

\* C29: the HV stored in a record is the value its volatility check was
\* evaluated on: in every record of the log the volatility check is passed if
\* and only if the record's hv is <= MAX_HV, whatever the candle feed answers to
\* the two HV computations of the attempt.
RecordedHvIsCheckedHv ==
    \A i \in DOMAIN logs :
        logs[i].volatility = "pass" <=> logs[i].hv <= MAX_HV

====
